---- MODULE Spec2Model ----
(***************************************************************************)
(* A model of legal_case_summarizer.py: the /analyze request pipeline      *)
(* (read_file, build_prompt_text, call_llama3, save_txt, save_pdf) over    *)
(* the output directory, and the wrap and paginate layout of save_pdf.     *)
(*                                                                         *)
(* Texts of the pipeline are ropes: a sequence of pieces, each piece the   *)
(* characters off+1 .. off+len of a named source string.  Texts of the     *)
(* layout are sequences of glyph runs (see Glyphs).                        *)
(***************************************************************************)
EXTENDS Integers, Sequences, FiniteSets, TLC

VARIABLES
    clock,       \* datetime.now(), in whole seconds
    store,       \* the files of STORE_DIR: file name -> content
    nreq,        \* number of requests received so far
    pc,          \* position of the current request in analyze
    files,       \* analyze: the uploaded batch
    all_texts,   \* analyze: the extraction results
    safe_names,  \* analyze: the file names received
    joined,      \* analyze: the corpus
    prompt,      \* analyze: the prompt
    result,      \* analyze: the completion text
    base,        \* analyze: the base identifier (its timestamp)
    response,    \* the response of the request, once it has one
    nread,       \* history: read_file calls of the current request
    nllm,        \* history: call_llama3 calls of the current request
    store0,      \* history: the store when the current request was received
    text,        \* save_pdf: the input string
    paragraphs,  \* draw_wrapped: the paragraphs still to draw
    words,       \* wrap_text: the words still to place
    wrapped,     \* wrap_text: the lines closed so far
    line,        \* wrap_text: the line under way
    lines,       \* draw_wrapped: the lines still to draw
    y,           \* save_pdf: the vertical cursor
    pages,       \* the canvas: pages closed by showPage
    drawn,       \* the canvas: the drawString calls, in order
    rpc          \* position in save_pdf

pipeVars == <<clock, store, nreq, pc, files, all_texts, safe_names, joined,
              prompt, result, base, response, nread, nllm, store0>>
renderVars == <<text, paragraphs, words, wrapped, line, lines, y, pages, drawn, rpc>>
vars == <<pipeVars, renderVars>>

----------------------------------------------------------------------------
(* Bounds of the model *)

MaxDocs == 2
MaxRequests == 2
MaxClock == 2
BigLen == 70000
ErrMsgLen == 12

(* Program constants *)

MAX_CHARS == 120000
MIN_RESULT_LEN == 30
TemplateLen == 2490
SentinelLen == 31

Min(a, b) == IF a <= b THEN a ELSE b

----------------------------------------------------------------------------
(* Ropes *)

Piece(src, n) == IF n = 0 THEN <<>> ELSE <<[src |-> src, off |-> 0, len |-> n]>>

RECURSIVE StrLen(_)
StrLen(s) == IF s = <<>> THEN 0 ELSE Head(s).len + StrLen(Tail(s))

\* s[:k]
RECURSIVE SlicePrefix(_, _)
SlicePrefix(s, k) ==
    IF s = <<>> \/ k <= 0 THEN <<>>
    ELSE IF Head(s).len <= k
         THEN <<Head(s)>> \o SlicePrefix(Tail(s), k - Head(s).len)
         ELSE <<[Head(s) EXCEPT !.len = k]>>

\* the character at position i (1-based) of s: its source and its place there
RECURSIVE CharAt(_, _)
CharAt(s, i) ==
    IF Head(s).len >= i THEN <<Head(s).src, Head(s).off + i>>
    ELSE CharAt(Tail(s), i - Head(s).len)

\* sep.join(parts)
RECURSIVE Join(_, _)
Join(sep, parts) ==
    IF parts = <<>> THEN <<>>
    ELSE IF Len(parts) = 1 THEN Head(parts)
    ELSE Head(parts) \o sep \o Join(sep, Tail(parts))

----------------------------------------------------------------------------
(* read_file *)

ALLOWED_EXT == {".pdf", ".txt", ".docx"}

\* os.path.splitext(name.lower())[1], on the file names of the model
Ext(name) ==
    CASE name \in {"a.pdf", "A.PDF"} -> ".pdf"
      [] name = "b.docx" -> ".docx"
      [] name = "c.txt" -> ".txt"
      [] name = "d.exe" -> ".exe"
      [] OTHER -> ""

Raise == "raise"

\* the string a return statement of read_file builds
Block(kind, name, n) == Piece(<<kind, name, n>>, n)

ReadFileNoCatch(file) ==
    LET name == IF file.filename = "" THEN "uploaded" ELSE file.filename
        ext == Ext(name)
    IN  IF file.content = "unreadable" THEN Raise
        ELSE IF ext \notin ALLOWED_EXT
             THEN Block("SKIP", name, 30 + Len(name))
        ELSE IF ext = ".txt"
             THEN Block("TXT", name, 40 + 2 * Len(name) + file.size)
        ELSE IF file.content = "corrupt" THEN Raise
        ELSE IF ext = ".pdf"
             THEN Block("PDF", name, 40 + 2 * Len(name) + file.size)
        ELSE Block("DOCX", name, 42 + 2 * Len(name) + file.size)

ReadFile(file) ==
    LET name == IF file.filename = "" THEN "uploaded" ELSE file.filename
        ext == Ext(name)
    IN  IF file.content = "unreadable" THEN Raise
        ELSE IF ext \notin ALLOWED_EXT
             THEN Block("SKIP", name, 30 + Len(name))
        ELSE IF ext = ".txt"
             THEN Block("TXT", name, 40 + 2 * Len(name) + file.size)
        ELSE IF file.content = "corrupt"
             THEN Block("ERR", name, 20 + Len(name) + ErrMsgLen)
        ELSE IF ext = ".pdf"
             THEN Block("PDF", name, 40 + 2 * Len(name) + file.size)
        ELSE Block("DOCX", name, 42 + 2 * Len(name) + file.size)

----------------------------------------------------------------------------
(* build_prompt_text *)

PROMPT_TEMPLATE == Piece("PROMPT_TEMPLATE", TemplateLen)

BuildPromptTextCutTail(all_text) ==
    SlicePrefix(PROMPT_TEMPLATE \o Piece("\n", 1) \o all_text, MAX_CHARS)

BuildPromptText(all_text) ==
    LET trimmed == SlicePrefix(all_text, MAX_CHARS)
    IN  PROMPT_TEMPLATE \o Piece("\n", 1) \o trimmed

----------------------------------------------------------------------------
(* call_llama3 *)

\* A completion content: lead and trail count its leading and trailing
\* whitespace characters, body is the length of what lies between, and
\* sentinel says whether that part begins with the text
\* "ERROR: LLM server not reachable" (SentinelLen characters).
Content(lead, sentinel, body, trail) ==
    [lead |-> lead, sentinel |-> sentinel, body |-> body, trail |-> trail]

SENTINEL == Content(0, TRUE, SentinelLen, 0)

\* s.strip()
Strip(s) == [s EXCEPT !.lead = 0, !.trail = 0]

\* len(s)
TextLen(s) == s.lead + s.body + s.trail

\* s.startswith("ERROR: LLM server not reachable")
StartsWithSentinel(s) == s.lead = 0 /\ s.sentinel

BodyLens == {0, 2, MIN_RESULT_LEN - 1, MIN_RESULT_LEN, MIN_RESULT_LEN + 10}

\* what ollama.chat can answer: an exception, or a message content
Answers ==
    {[raised |-> TRUE, content |-> Content(0, FALSE, 0, 0)]} \cup
    {[raised |-> FALSE, content |-> Content(l, FALSE, b, t)] :
        l \in {0, 1}, b \in BodyLens, t \in {0, 1}} \cup
    {[raised |-> FALSE, content |-> Content(l, TRUE, b, 0)] :
        l \in {0, 1}, b \in {SentinelLen, SentinelLen + 5}}

CallLlama3(answer) ==
    IF answer.raised THEN SENTINEL ELSE Strip(answer.content)

----------------------------------------------------------------------------
(* The uploaded batches *)

Names == {"A.PDF", "b.docx", "c.txt", "d.exe", ""}

Documents ==
    {d \in [filename : Names, content : {"ok", "corrupt", "unreadable"},
            size : {0, BigLen}] :
        /\ d.content # "ok" => d.size = 0
        /\ d.content = "corrupt" => Ext(d.filename) \in {".pdf", ".docx"}
        /\ d.content = "unreadable" => d.filename = "c.txt"}

Batches == UNION {[1..n -> Documents] : n \in 0..MaxDocs}

\* the batches of at most one file
SmallBatches == UNION {[1..n -> Documents] : n \in 0..1}

----------------------------------------------------------------------------
(* The store *)

TxtName(b) == <<b, ".txt">>
PdfName(b) == <<b, ".pdf">>

NoResponse == [status |-> 0]
Failure(status, error) == [status |-> status, error |-> error]


\* the store after open(name, 'w') and write: the file is created or replaced
WriteFile(st, name, content) ==
    [f \in DOMAIN st \cup {name} |-> IF f = name THEN content ELSE st[f]]

\* the files holding what request r wrote
WrittenBy(r) == {f \in DOMAIN store : store[f].req = r}

----------------------------------------------------------------------------
(* analyze *)

Terminal == {"IDLE", "PERSISTED", "FAILED"}

\* the event loop hands a request to analyze; analyze holds no await, so the
\* next request starts when the current one has returned or raised
Receive(batches) ==
    /\ pc \in Terminal
    /\ nreq < MaxRequests
    /\ \E batch \in batches : files' = batch
    /\ nreq' = nreq + 1
    /\ pc' = "RECEIVED"
    /\ all_texts' = <<>> /\ safe_names' = <<>> /\ joined' = <<>>
    /\ prompt' = <<>> /\ result' = Content(0, FALSE, 0, 0) /\ base' = -1
    /\ response' = NoResponse
    /\ nread' = 0 /\ nllm' = 0
    /\ store0' = store
    /\ UNCHANGED <<clock, store>>

\* lines 282-291, without the emptiness test of line 282
ExtractNoEmptyCheck ==
    /\ pc = "RECEIVED"
    /\ LET got == [i \in 1..Len(files) |-> ReadFile(files[i])]
           bad == {i \in 1..Len(files) : got[i] = Raise}
       IN  IF bad = {}
           THEN /\ all_texts' = got
                /\ safe_names' = [i \in 1..Len(files) |-> files[i].filename]
                /\ joined' = Join(Piece("\n\n", 2), got)
                /\ nread' = Len(files)
                /\ pc' = "EXTRACTED"
                /\ UNCHANGED response
           ELSE LET k == CHOOSE i \in bad : \A j \in bad : i <= j
                IN  /\ all_texts' = SubSeq(got, 1, k - 1)
                    /\ safe_names' = [i \in 1..k |-> files[i].filename]
                    /\ nread' = k
                    /\ pc' = "FAILED"
                    /\ response' = Failure(500, "Internal Server Error")
                    /\ UNCHANGED joined
    /\ UNCHANGED <<clock, store, nreq, files, prompt, result, base, nllm, store0>>

\* lines 282-291: the empty batch is refused, else every file is read in
\* upload order; an exception of read_file ends the request
Extract ==
    /\ pc = "RECEIVED"
    /\ IF files = <<>>
       THEN /\ pc' = "FAILED"
            /\ response' = Failure(400, "No files uploaded")
            /\ UNCHANGED <<all_texts, safe_names, joined, nread>>
       ELSE LET got == [i \in 1..Len(files) |-> ReadFile(files[i])]
                bad == {i \in 1..Len(files) : got[i] = Raise}
            IN  IF bad = {}
                THEN /\ all_texts' = got
                     /\ safe_names' = [i \in 1..Len(files) |-> files[i].filename]
                     /\ joined' = Join(Piece("\n\n", 2), got)
                     /\ nread' = Len(files)
                     /\ pc' = "EXTRACTED"
                     /\ UNCHANGED response
                ELSE LET k == CHOOSE i \in bad : \A j \in bad : i <= j
                     IN  /\ all_texts' = SubSeq(got, 1, k - 1)
                         /\ safe_names' = [i \in 1..k |-> files[i].filename]
                         /\ nread' = k
                         /\ pc' = "FAILED"
                         /\ response' = Failure(500, "Internal Server Error")
                         /\ UNCHANGED joined
    /\ UNCHANGED <<clock, store, nreq, files, prompt, result, base, nllm, store0>>

\* line 293
BuildPrompt ==
    /\ pc = "EXTRACTED"
    /\ prompt' = BuildPromptText(joined)
    /\ pc' = "PROMPTED"
    /\ UNCHANGED <<clock, store, nreq, files, all_texts, safe_names, joined,
                   result, base, response, nread, nllm, store0>>

\* line 294
Complete ==
    /\ pc = "PROMPTED"
    /\ \E answer \in Answers : result' = CallLlama3(answer)
    /\ nllm' = nllm + 1
    /\ pc' = "COMPLETED"
    /\ UNCHANGED <<clock, store, nreq, files, all_texts, safe_names, joined,
                   prompt, base, response, nread, store0>>

\* lines 296-306 with save_txt moved before the two checks
CheckAfterSaveTxt ==
    /\ pc = "COMPLETED"
    /\ base' = clock
    /\ store' = WriteFile(store, TxtName(clock), [req |-> nreq, text |-> result])
    /\ IF StartsWithSentinel(result)
       THEN /\ pc' = "FAILED"
            /\ response' = Failure(500, "LLM server is down")
       ELSE IF TextLen(Strip(result)) < MIN_RESULT_LEN
       THEN /\ pc' = "FAILED"
            /\ response' = Failure(500, "LLM returned empty response")
       ELSE /\ pc' = "TXT_SAVED"
            /\ UNCHANGED response
    /\ UNCHANGED <<clock, nreq, files, all_texts, safe_names, joined,
                   prompt, result, nread, nllm, store0>>

\* lines 296-304 with the comparison of line 299 off by one
CheckOffByOne ==
    /\ pc = "COMPLETED"
    /\ IF StartsWithSentinel(result)
       THEN /\ pc' = "FAILED"
            /\ response' = Failure(500, "LLM server is down")
            /\ UNCHANGED base
       ELSE IF TextLen(Strip(result)) <= MIN_RESULT_LEN
       THEN /\ pc' = "FAILED"
            /\ response' = Failure(500, "LLM returned empty response")
            /\ UNCHANGED base
       ELSE /\ base' = clock
            /\ pc' = "CHECKED"
            /\ UNCHANGED response
    /\ UNCHANGED <<clock, store, nreq, files, all_texts, safe_names, joined,
                   prompt, result, nread, nllm, store0>>

\* lines 296-304: the two checks of the completion text, then the timestamp
Check ==
    /\ pc = "COMPLETED"
    /\ IF StartsWithSentinel(result)
       THEN /\ pc' = "FAILED"
            /\ response' = Failure(500, "LLM server is down")
            /\ UNCHANGED base
       ELSE IF TextLen(Strip(result)) < MIN_RESULT_LEN
       THEN /\ pc' = "FAILED"
            /\ response' = Failure(500, "LLM returned empty response")
            /\ UNCHANGED base
       ELSE /\ base' = clock
            /\ pc' = "CHECKED"
            /\ UNCHANGED response
    /\ UNCHANGED <<clock, store, nreq, files, all_texts, safe_names, joined,
                   prompt, result, nread, nllm, store0>>

\* line 306, save_txt: the file is written, or open raises
SaveTxt ==
    /\ pc = "CHECKED"
    /\ \/ /\ store' = WriteFile(store, TxtName(base), [req |-> nreq, text |-> result])
          /\ pc' = "TXT_SAVED"
          /\ UNCHANGED response
       \/ /\ pc' = "FAILED"
          /\ response' = Failure(500, "Internal Server Error")
          /\ UNCHANGED store
    /\ UNCHANGED <<clock, nreq, files, all_texts, safe_names, joined, prompt,
                   result, base, nread, nllm, store0>>

\* line 307, save_pdf lines 237-274: the pages are laid out in memory, or
\* the layout raises
RenderPdf ==
    /\ pc = "TXT_SAVED"
    /\ \/ /\ pc' = "RENDERED"
          /\ UNCHANGED response
       \/ /\ pc' = "FAILED"
          /\ response' = Failure(500, "Internal Server Error")
    /\ UNCHANGED <<clock, store, nreq, files, all_texts, safe_names, joined,
                   prompt, result, base, nread, nllm, store0>>

\* save_pdf lines 275-277 and the return of lines 309-314: the file is
\* written and the request answered, or open raises
WritePdf ==
    /\ pc = "RENDERED"
    /\ \/ /\ store' = WriteFile(store, PdfName(base), [req |-> nreq, text |-> result])
          /\ pc' = "PERSISTED"
          /\ response' = [status |-> 200, base_name |-> base,
                          txt_url |-> TxtName(base), pdf_url |-> PdfName(base),
                          files_received |-> safe_names]
       \/ /\ pc' = "FAILED"
          /\ response' = Failure(500, "Internal Server Error")
          /\ UNCHANGED store
    /\ UNCHANGED <<clock, nreq, files, all_texts, safe_names, joined, prompt,
                   result, base, nread, nllm, store0>>

\* a second passes
Tick ==
    /\ clock < MaxClock
    /\ clock' = clock + 1
    /\ UNCHANGED <<store, nreq, pc, files, all_texts, safe_names, joined,
                   prompt, result, base, response, nread, nllm, store0>>

RenderIdle ==
    /\ text = <<>> /\ paragraphs = <<>> /\ words = <<>> /\ wrapped = <<>>
    /\ line = <<>> /\ lines = <<>> /\ y = 0 /\ pages = 0
    /\ drawn = <<>> /\ rpc = "off"

Init ==
    /\ clock = 0
    /\ store = <<>>
    /\ nreq = 0
    /\ pc = "IDLE"
    /\ files = <<>> /\ all_texts = <<>> /\ safe_names = <<>> /\ joined = <<>>
    /\ prompt = <<>> /\ result = Content(0, FALSE, 0, 0) /\ base = -1
    /\ response = NoResponse
    /\ nread = 0 /\ nllm = 0
    /\ store0 = <<>>
    /\ RenderIdle

Next ==
    \/ Receive(SmallBatches) /\ UNCHANGED renderVars
    \/ Extract /\ UNCHANGED renderVars
    \/ BuildPrompt /\ UNCHANGED renderVars
    \/ Complete /\ UNCHANGED renderVars
    \/ Check /\ UNCHANGED renderVars
    \/ SaveTxt /\ UNCHANGED renderVars
    \/ RenderPdf /\ UNCHANGED renderVars
    \/ WritePdf /\ UNCHANGED renderVars
    \/ Tick /\ UNCHANGED renderVars

Spec == Init /\ [][Next]_vars

\* one request, over every batch of at most MaxDocs files, within one second
NextBatch ==
    \/ nreq = 0 /\ Receive(Batches) /\ UNCHANGED renderVars
    \/ Extract /\ UNCHANGED renderVars
    \/ BuildPrompt /\ UNCHANGED renderVars
    \/ Complete /\ UNCHANGED renderVars
    \/ Check /\ UNCHANGED renderVars
    \/ SaveTxt /\ UNCHANGED renderVars
    \/ RenderPdf /\ UNCHANGED renderVars
    \/ WritePdf /\ UNCHANGED renderVars

SpecBatch == Init /\ [][NextBatch]_vars

----------------------------------------------------------------------------
(* Properties of the pipeline *)

Finished == pc \in {"PERSISTED", "FAILED"}

\* the completion text passes the two checks of analyze
Plausible(s) == ~StartsWithSentinel(s) /\ TextLen(Strip(s)) >= MIN_RESULT_LEN

\* C1: for every request that has returned or raised, the .txt file and the
\* .pdf file of a base identifier were either both written by it or neither.
C1_BothFilesOrNeither ==
    \A r \in 1..nreq :
        (r < nreq \/ Finished) =>
            \A b \in 0..MaxClock :
                TxtName(b) \in WrittenBy(r) <=> PdfName(b) \in WrittenBy(r)

\* C2: a request that fails for an empty batch (400, no files), for the
\* unreachable sentinel (500, server down) or for a completion text shorter
\* than 30 characters (500, empty response) is answered with that reason and
\* leaves the store as it was when the request was received.
C2_FailureLeavesStore ==
    pc = "FAILED" =>
        /\ files = <<>> => response = Failure(400, "No files uploaded")
        /\ nllm = 1 /\ StartsWithSentinel(result)
              => response = Failure(500, "LLM server is down")
        /\ nllm = 1 /\ ~StartsWithSentinel(result) /\ TextLen(result) < MIN_RESULT_LEN
              => response = Failure(500, "LLM returned empty response")
        /\ response.error \in {"No files uploaded", "LLM server is down",
                               "LLM returned empty response"}
              => store = store0

C2_Witness ==
    /\ pc = "FAILED"
    /\ response.error = "LLM returned empty response"
    /\ store # <<>>

\* C3: a file of the store, once written, is never written again: no step
\* removes it or changes what it holds.
C3_WrittenOnce ==
    [][\A f \in DOMAIN store : f \in DOMAIN store' /\ store'[f] = store[f]]_vars

\* the request succeeded: both files hold its completion text and the
\* response carries the base identifier and both locators
Succeeded ==
    /\ pc = "PERSISTED"
    /\ response.status = 200
    /\ response.base_name = base
    /\ response.txt_url = TxtName(base) /\ response.pdf_url = PdfName(base)
    /\ {TxtName(base), PdfName(base)} \subseteq WrittenBy(nreq)
    /\ store[TxtName(base)].text = result /\ store[PdfName(base)].text = result

\* C10 as stated: once call_llama3 has returned, the request succeeds if and
\* only if the text passes the two checks.
C10_DecidedByTextAlone ==
    Finished /\ nllm = 1 => (Succeeded <=> Plausible(result))

\* C10 amended: once call_llama3 has returned, a text beginning with the
\* sentinel fails with "LLM server is down", another text of trimmed length
\* below 30 fails with "LLM returned empty response", and a text that passes
\* both checks makes the request succeed unless save_txt or save_pdf raises.
C10_DecidedByTextAndSaves ==
    Finished /\ nllm = 1 =>
        /\ Succeeded => Plausible(result)
        /\ pc = "PERSISTED" => Succeeded
        /\ StartsWithSentinel(result)
              => pc = "FAILED" /\ response = Failure(500, "LLM server is down")
        /\ ~StartsWithSentinel(result) /\ TextLen(Strip(result)) < MIN_RESULT_LEN
              => pc = "FAILED" /\ response = Failure(500, "LLM returned empty response")
        /\ Plausible(result)
              => Succeeded \/ (pc = "FAILED" /\ response = Failure(500, "Internal Server Error"))

C10_Witness ==
    /\ Succeeded
    /\ TextLen(result) = MIN_RESULT_LEN

----------------------------------------------------------------------------
(* Properties of one request over a batch *)

StageOrder ==
    <<"RECEIVED", "EXTRACTED", "PROMPTED", "COMPLETED", "CHECKED",
      "TXT_SAVED", "RENDERED", "PERSISTED">>

Rank(p) == CHOOSE i \in 1..Len(StageOrder) : StageOrder[i] = p

C4_Step ==
    pc' # pc =>
        \/ pc \in Terminal /\ pc' = "RECEIVED" /\ nreq' = nreq + 1
        \/ pc \notin Terminal /\ pc' = "FAILED"
        \/ pc \notin Terminal /\ pc' # "FAILED" /\ Rank(pc') = Rank(pc) + 1

C4_Order ==
    /\ nllm <= 1
    /\ nllm = 1 => prompt # <<>>
    /\ prompt # <<>> => nread = Len(files) /\ Len(all_texts) = Len(files)
    /\ store # store0 => nllm = 1 /\ Plausible(result)
    /\ files = <<>> /\ pc # "RECEIVED" => pc \in {"IDLE", "FAILED"} /\ nread = 0 /\ nllm = 0

\* C4: a request moves one stage at a time through RECEIVED, EXTRACTED,
\* PROMPTED, COMPLETED, (checked, text saved,) RENDERED, PERSISTED, or fails
\* and stops; every document is read before the prompt is built, call_llama3
\* is called at most once, no file is written unless the completion text has
\* passed both checks, and an empty batch fails with no read_file and no
\* call_llama3 call.
C4_Stages == [][C4_Step]_vars /\ []C4_Order

C4_Witness ==
    /\ pc = "PERSISTED"
    /\ Len(files) >= 2
    /\ nllm = 1

\* the name read_file gives the file
ShownName(file) == IF file.filename = "" THEN "uploaded" ELSE file.filename

\* what the extraction result of a file must be: its kind
ExpectedKind(file) ==
    IF Ext(ShownName(file)) \notin ALLOWED_EXT THEN "SKIP"
    ELSE IF Ext(ShownName(file)) = ".txt" THEN "TXT"
    ELSE IF file.content = "corrupt" THEN "ERR"
    ELSE IF Ext(ShownName(file)) = ".pdf" THEN "PDF" ELSE "DOCX"

Received(batch) == \A i \in DOMAIN batch : batch[i].content # "unreadable"

\* C8: for a non-empty batch whose files could all be read, extraction ends
\* with one result per file, in upload order, each naming its file and of the
\* kind its outcome calls for (extracted, skipped, error notice), and the
\* corpus is these results in that order with one separator between
\* neighbours.
C8_OneBlockPerDocument ==
    files # <<>> /\ Received(files) /\ pc # "RECEIVED" =>
        /\ nread = Len(files)
        /\ Len(all_texts) = Len(files)
        /\ safe_names = [i \in 1..Len(files) |-> files[i].filename]
        /\ \A i \in 1..Len(files) :
              /\ Len(all_texts[i]) = 1
              /\ all_texts[i][1].src[1] = ExpectedKind(files[i])
              /\ all_texts[i][1].src[2] = ShownName(files[i])
        /\ Len(joined) = 2 * Len(files) - 1
        /\ \A i \in 1..Len(files) : joined[2 * i - 1] = all_texts[i][1]
        /\ \A i \in 1..(Len(files) - 1) :
              joined[2 * i] = [src |-> "\n\n", off |-> 0, len |-> 2]

C8_Witness ==
    /\ pc = "EXTRACTED"
    /\ Len(files) = 2
    /\ files[1].content = "corrupt"
    /\ files[2].content = "ok"
    /\ ExpectedKind(files[2]) = "DOCX"

\* the positions at and next to the ends of the pieces of s
RECURSIVE PieceEnds(_, _)
PieceEnds(s, at) ==
    IF s = <<>> THEN {}
    ELSE {at + Head(s).len, at + Head(s).len + 1} \cup PieceEnds(Tail(s), at + Head(s).len)

\* C9: the prompt is the whole template, the separator, and the first
\* min(len(corpus), 120000) characters of the corpus, in place: its length
\* is the template's plus 1 plus that minimum.
C9_PromptIsTemplateAndPrefix ==
    prompt # <<>> =>
        LET n == StrLen(joined)
            m == Min(n, MAX_CHARS)
            probes == {i \in {1, 2, m - 1, m, MAX_CHARS} \cup PieceEnds(joined, 0) :
                          1 <= i /\ i <= m}
        IN  /\ StrLen(prompt) = TemplateLen + 1 + m
            /\ StrLen(prompt) <= TemplateLen + 1 + MAX_CHARS
            /\ \A i \in {1, 2, TemplateLen - 1, TemplateLen} :
                  CharAt(prompt, i) = <<"PROMPT_TEMPLATE", i>>
            /\ CharAt(prompt, TemplateLen + 1) = <<"\n", 1>>
            /\ \A i \in probes :
                  CharAt(prompt, TemplateLen + 1 + i) = CharAt(joined, i)

C9_Witness ==
    /\ pc = "PROMPTED"
    /\ StrLen(joined) > MAX_CHARS
    /\ StrLen(prompt) = TemplateLen + 1 + MAX_CHARS

----------------------------------------------------------------------------
(* save_pdf: the layout *)

(* Bounds of the layout *)

MaxLen == 4
MaxRepeat == 125
MaxLines == 56

(* Program constants, in 1/1000 pt: A4 is 595.276 x 841.890 pt and 1 cm is
   28.346 pt, so y starts at height - 2 cm = 785.197 pt, the bottom margin
   is 2 cm = 56.693 pt and max_width = width - 4 cm = 481.889 pt. *)

TopY == 785197
BottomMargin == 56693
MaxWidth == 481889
LineStep == 14000
ParaStep == 6000

\* A string is a sequence of glyph runs: a space, a newline, a tab, the
\* letter a, and two runs of the letter W that stand for thirty and for
\* sixty W in a row.
Glyphs == {" ", "\n", "\t", "a", "W*30", "W*60"}

\* the characters str.strip() removes
Whitespace == {" ", "\n", "\t"}

\* canv.stringWidth(s, "Helvetica", 10), in 1/1000 pt: the Helvetica
\* metrics give the space 278, a 556 and W 944 thousandths of the font size
GlyphWidth(g) ==
    CASE g = " " -> 2780
      [] g = "a" -> 5560
      [] g = "W*30" -> 30 * 9440
      [] g = "W*60" -> 60 * 9440
      [] OTHER -> 0

RECURSIVE StringWidth(_)
StringWidth(s) == IF s = <<>> THEN 0 ELSE GlyphWidth(Head(s)) + StringWidth(Tail(s))

\* the fields of s[lo..hi] between the glyphs of seps, empty ones kept
RECURSIVE FieldsOf(_, _, _, _)
FieldsOf(s, seps, lo, hi) ==
    IF lo > hi THEN << <<>> >>
    ELSE IF lo = hi
         THEN (IF s[lo] \in seps THEN << <<>>, <<>> >> ELSE << <<s[lo]>> >>)
    ELSE LET mid == (lo + hi) \div 2
             l == FieldsOf(s, seps, lo, mid)
             r == FieldsOf(s, seps, mid + 1, hi)
         IN  SubSeq(l, 1, Len(l) - 1) \o <<l[Len(l)] \o r[1]>> \o Tail(r)

Fields(s, seps) == FieldsOf(s, seps, 1, Len(s))

\* s.split(sep)
Split(s, sep) == Fields(s, {sep})

RECURSIVE LStrip(_)
LStrip(s) == IF s # <<>> /\ Head(s) \in Whitespace THEN LStrip(Tail(s)) ELSE s

RECURSIVE RStrip(_)
RStrip(s) ==
    IF s # <<>> /\ s[Len(s)] \in Whitespace THEN RStrip(SubSeq(s, 1, Len(s) - 1)) ELSE s

\* s.strip()
StripStr(s) == RStrip(LStrip(s))

\* the body of the loop of wrap_text with the word that overflows left
\* out of the next line
WrapStepDropWord(ln, w) ==
    LET test == StripStr(ln \o <<" ">> \o w)
    IN  IF StringWidth(test) <= MaxWidth
        THEN [closed |-> <<>>, line |-> test]
        ELSE [closed |-> <<ln>>, line |-> <<>>]

\* the body of the loop of wrap_text, lines 262-267: the line under way
\* after the word w, and the line closed by it, if any
WrapStep(ln, w) ==
    LET test == StripStr(ln \o <<" ">> \o w)
    IN  IF StringWidth(test) <= MaxWidth
        THEN [closed |-> <<>>, line |-> test]
        ELSE [closed |-> <<ln>>, line |-> w]

\* the body of the loop of lines 249-254 with the page test made after the
\* line is drawn
DrawStepTestAfter(c, ln) ==
    LET low == c.y - LineStep < BottomMargin
    IN  [y |-> IF low THEN TopY ELSE c.y - LineStep,
         pages |-> IF low THEN c.pages + 1 ELSE c.pages,
         drawn |-> Append(c.drawn, [page |-> c.pages + 1, y |-> c.y, line |-> ln])]

\* the body of the loop of lines 249-254: showPage and the reset of y when
\* y is below the bottom margin, then drawString and the line step
DrawStep(c, ln) ==
    LET low == c.y < BottomMargin
        at == IF low THEN TopY ELSE c.y
        closed == IF low THEN c.pages + 1 ELSE c.pages
    IN  [y |-> at - LineStep,
         pages |-> closed,
         drawn |-> Append(c.drawn, [page |-> closed + 1, y |-> at, line |-> ln])]

\* lines 237-243, 272 and 247: the canvas is set up and the text split
BeginPdf ==
    /\ rpc = "begin"
    /\ paragraphs' = Split(text, "\n")
    /\ y' = TopY
    /\ rpc' = "paragraph"
    /\ UNCHANGED <<text, words, wrapped, line, lines, pages, drawn>>

\* lines 247-248 and 258-260: the next paragraph is split into words
NextParagraph ==
    /\ rpc = "paragraph"
    /\ paragraphs # <<>>
    /\ words' = Split(Head(paragraphs), " ")
    /\ wrapped' = <<>>
    /\ line' = <<>>
    /\ paragraphs' = Tail(paragraphs)
    /\ rpc' = "wrap"
    /\ UNCHANGED <<text, lines, y, pages, drawn>>

\* lines 261-267: one word is placed
WrapWord ==
    /\ rpc = "wrap"
    /\ words # <<>>
    /\ LET r == WrapStep(line, Head(words))
       IN  /\ wrapped' = wrapped \o r.closed
           /\ line' = r.line
    /\ words' = Tail(words)
    /\ UNCHANGED <<text, paragraphs, lines, y, pages, drawn, rpc>>

\* lines 268-270 and 248-249: the last line is closed and the lines returned
WrapEnd ==
    /\ rpc = "wrap"
    /\ words = <<>>
    /\ lines' = IF line # <<>> THEN Append(wrapped, line) ELSE wrapped
    /\ wrapped' = <<>>
    /\ line' = <<>>
    /\ rpc' = "lines"
    /\ UNCHANGED <<text, paragraphs, words, y, pages, drawn>>

\* lines 249-254: one line is drawn
DrawLine ==
    /\ rpc = "lines"
    /\ lines # <<>>
    /\ LET c == DrawStep([y |-> y, pages |-> pages, drawn |-> drawn], Head(lines))
       IN  /\ y' = c.y
           /\ pages' = c.pages
           /\ drawn' = c.drawn
    /\ lines' = Tail(lines)
    /\ UNCHANGED <<text, paragraphs, words, wrapped, line, rpc>>

\* line 255: the paragraph spacing
EndParagraph ==
    /\ rpc = "lines"
    /\ lines = <<>>
    /\ y' = y - ParaStep
    /\ rpc' = "paragraph"
    /\ UNCHANGED <<text, paragraphs, words, wrapped, line, lines, pages, drawn>>

\* lines 274-277: save closes the page under way and the file is written
SavePdf ==
    /\ rpc = "paragraph"
    /\ paragraphs = <<>>
    /\ pages' = pages + 1
    /\ rpc' = "done"
    /\ UNCHANGED <<text, paragraphs, words, wrapped, line, lines, y, drawn>>

\* n copies of s in a row
Repeat(s, n) == [i \in 1..(n * Len(s)) |-> s[((i - 1) % Len(s)) + 1]]

\* every string of at most MaxLen glyph runs
SmallTexts == UNION {[1..n -> Glyphs] : n \in 0..MaxLen}

\* strings of many paragraphs or of many lines
LongTexts ==
    {Repeat(unit, n) \o tail :
        unit \in {<<"\n">>, <<"a", "\n">>, <<"a", " ", "a", "\n", "\n">>},
        n \in (MaxRepeat - 5)..MaxRepeat,
        tail \in {<<>>, <<"a">>}}
    \cup
    {Repeat(<<"W*60", " ">>, n) \o tail :
        n \in (MaxLines - 3)..MaxLines,
        tail \in {<<>>, <<"a">>, <<"\n", "a">>}}

InitRender ==
    /\ clock = 0
    /\ store = <<>>
    /\ nreq = 0
    /\ pc = "IDLE"
    /\ files = <<>> /\ all_texts = <<>> /\ safe_names = <<>> /\ joined = <<>>
    /\ prompt = <<>> /\ result = Content(0, FALSE, 0, 0) /\ base = -1
    /\ response = NoResponse
    /\ nread = 0 /\ nllm = 0
    /\ store0 = <<>>
    /\ text \in SmallTexts \cup LongTexts
    /\ paragraphs = <<>> /\ words = <<>> /\ wrapped = <<>> /\ line = <<>>
    /\ lines = <<>> /\ y = 0 /\ pages = 0 /\ drawn = <<>>
    /\ rpc = "begin"

NextRender ==
    \/ BeginPdf /\ UNCHANGED pipeVars
    \/ NextParagraph /\ UNCHANGED pipeVars
    \/ WrapWord /\ UNCHANGED pipeVars
    \/ WrapEnd /\ UNCHANGED pipeVars
    \/ DrawLine /\ UNCHANGED pipeVars
    \/ EndParagraph /\ UNCHANGED pipeVars
    \/ SavePdf /\ UNCHANGED pipeVars

SpecRender == InitRender /\ [][NextRender]_vars

----------------------------------------------------------------------------
(* Properties of the layout *)

\* C5: every line drawn is at most max_width wide.
C5_LinesFit ==
    \A i \in 1..Len(drawn) : StringWidth(drawn[i].line) <= MaxWidth

\* C6: no line is drawn below the bottom margin: every line is drawn
\* between the two margins, either lower on the page of the line before it
\* or at the top margin of the page after (the first line on page 1, or at
\* the top margin of page 2 after blank paragraphs), save closes one more
\* page than showPage did, and the empty string is rendered as one page
\* with no line.
C6_LinesAboveMargin ==
    /\ \A i \in 1..Len(drawn) :
          LET before == IF i = 1 THEN [page |-> 1, y |-> TopY + LineStep]
                                 ELSE drawn[i - 1]
          IN  /\ drawn[i].y >= BottomMargin /\ drawn[i].y <= TopY
              /\ \/ /\ drawn[i].page = before.page
                    /\ drawn[i].y <= before.y - LineStep
                 \/ /\ drawn[i].page = before.page + 1
                    /\ drawn[i].y = TopY
    /\ rpc = "done" =>
          pages = IF drawn = <<>> THEN 1 ELSE drawn[Len(drawn)].page
    /\ rpc = "done" /\ text = <<>> => pages = 1 /\ drawn = <<>>

\* a page break forced by the spacing of blank paragraphs alone
C6_Witness ==
    /\ rpc = "done"
    /\ Len(drawn) = 1
    /\ drawn[1].page = 2
    /\ drawn[1].y = TopY

NonEmpty(w) == w # <<>>

\* the words of s: its non-empty fields between the glyphs of seps
Words(s, seps) == SelectSeq(Fields(s, seps), NonEmpty)

\* the words of the lines ds[lo..hi], in order
RECURSIVE WordsOfLines(_, _, _, _)
WordsOfLines(ds, seps, lo, hi) ==
    IF lo > hi THEN <<>>
    ELSE IF lo = hi THEN Words(ds[lo].line, seps)
    ELSE LET mid == (lo + hi) \div 2
         IN  WordsOfLines(ds, seps, lo, mid) \o WordsOfLines(ds, seps, mid + 1, hi)

\* the words of the lines drawn, in drawing order
DrawnWords(ds, seps) == WordsOfLines(ds, seps, 1, Len(ds))

\* C7 as stated: the words of the drawn lines, split on spaces, are the
\* words of the input, split on spaces and newlines.
C7_SpaceWordsKept ==
    rpc = "done" => DrawnWords(drawn, {" "}) = Words(text, {" ", "\n"})

\* C7 amended: the words of the drawn lines are the words of the input,
\* in order, when words are split on whitespace of any kind.
C7_WhitespaceWordsKept ==
    rpc = "done" => DrawnWords(drawn, Whitespace) = Words(text, Whitespace)

\* a paragraph wrapped into two lines, with repeated spaces
C7_Witness ==
    /\ rpc = "done"
    /\ text = <<"W*30", " ", " ", "W*30">>
    /\ Len(drawn) = 2

====
